---- MODULE Spec2Model ----
(***************************************************************************)
(* Model of src/app.py: the Streamlit page whose analyze_youtube_video     *)
(* downloads a video's audio to 'temp_audio.mp4', uploads it, polls the    *)
(* uploaded handle while it is PROCESSING, asks the model for an analysis  *)
(* and stores either the text or an error message in the session state.    *)
(*                                                                         *)
(* Every browser session has its own st.session_state and runs the script  *)
(* in its own thread of the one server process; the working directory,     *)
(* and with it the file 'temp_audio.mp4', is common to all of them.        *)
(***************************************************************************)
EXTENDS Integers, Sequences, FiniteSets, TLC

\* ---------------------------------------------------------------- bounds
MaxPolls == 2
\* the attempt counters of a run stop counting here
MaxAttempts == 2

\* two browser sessions of the one server process
Sessions == {1, 2}

\* ------------------------------------------------- values of the program
\* state names of the uploaded handle. The code tests only for "PROCESSING"
\* (line 69) and "FAILED" (line 73); "ACTIVE" is the ready state and
\* "UPLOADING" stands for any other name the store reports.
UploadState == {"UPLOADING", "PROCESSING", "ACTIVE", "FAILED"}
\* what a re-fetch can report for a handle last seen PROCESSING
NextUploadState == {"PROCESSING", "ACTIVE", "FAILED"}

\* messages carried by exceptions of the libraries (str(e))
Msgs == {"m1", "m2"}
\* status codes of pytube's HTTPError
StatusCodes == {403, 429}
\* texts the model can answer with (response.text): empty, plain, and
\* wrapped in a code fence
Texts == {"", "t1", "~~~t1~~~"}

\* the message of the exception raised at line 74
ProcessingFailedText == "Video processing failed in Google AI Studio"

NoFile == 0
NoHandle == "NONE"
None == "None"
NoExc == [type |-> "none", status_code |-> 0, msg |-> "", fault |-> "none"]
NoError == [wrapper |-> "", detail |-> ""]
NoAccess == [op |-> "none", actor |-> 0, owner |-> 0]
NoAttempts == [download |-> 0, upload |-> 0, generate |-> 0]

HTTPError(code, m) == [type |-> "HTTPError", status_code |-> code, msg |-> m, fault |-> "download"]
Exc(m, f) == [type |-> "Exception", status_code |-> 0, msg |-> m, fault |-> f]

VARIABLES
  pc,              \* position of each session's script thread
  is_processing,   \* st.session_state.is_processing
  analysis_result, \* st.session_state.analysis_result
  error_message,   \* st.session_state.error_message
  progress,        \* percentages given to the progress bar in this run
  audio_filepath,  \* local of analyze_youtube_video: TRUE when it names the file
  uploaded_file,   \* state name of the handle held in uploaded_file
  exc,             \* the exception in flight, and after the run the one it raised
  file,            \* 'temp_audio.mp4': NoFile, or the session that last opened it for writing
  polls,           \* get_file calls of this run (MaxPolls stands for MaxPolls or more)
  generated,       \* state name of the handle given to generate_content, or NoHandle
  created,         \* this run created 'temp_audio.mp4'
  removed,         \* this run called os.remove successfully
  escaped,         \* an exception left analyze_youtube_video
  ran,             \* the session has finished a run
  access,          \* the last access to 'temp_audio.mp4': who, and whose file it was
  attempts,        \* calls of download, upload_file, generate_content in this run
  sleeps,          \* time.sleep calls of this run (MaxPolls stands for MaxPolls or more)
  response,        \* response.text of this run's generate_content, or None
  prev             \* what the session state held when this run started

vars == <<pc, is_processing, analysis_result, error_message, progress,
          audio_filepath, uploaded_file, exc, file, polls, generated,
          created, removed, escaped, ran, access, attempts, sleeps,
          response, prev>>

Init ==
  /\ pc = [s \in Sessions |-> "idle"]
  /\ is_processing = [s \in Sessions |-> FALSE]
  /\ analysis_result = [s \in Sessions |-> None]
  /\ error_message = [s \in Sessions |-> NoError]
  /\ progress = [s \in Sessions |-> <<>>]
  /\ audio_filepath = [s \in Sessions |-> FALSE]
  /\ uploaded_file = [s \in Sessions |-> NoHandle]
  /\ exc = [s \in Sessions |-> NoExc]
  /\ file = NoFile
  /\ polls = [s \in Sessions |-> 0]
  /\ generated = [s \in Sessions |-> NoHandle]
  /\ created = [s \in Sessions |-> FALSE]
  /\ removed = [s \in Sessions |-> FALSE]
  /\ escaped = [s \in Sessions |-> FALSE]
  /\ ran = [s \in Sessions |-> FALSE]
  /\ access = NoAccess
  /\ attempts = [s \in Sessions |-> NoAttempts]
  /\ sleeps = [s \in Sessions |-> 0]
  /\ response = [s \in Sessions |-> None]
  /\ prev = [s \in Sessions |-> "none"]

\* line 134: the disabled= expression of the "Analyze Video" button
ButtonDisabled(s, video_url, is_api_key_valid) ==
  video_url = "" \/ is_processing[s] \/ ~is_api_key_valid

\* a raise that starts the stages over instead of leaving the try block
Raise_Retry(s, e) ==
  /\ exc' = [exc EXCEPT ![s] = e]
  /\ pc' = [pc EXCEPT ![s] = "connect"]

\* a raise inside the try block: control goes to the except clauses
Raise(s, e) ==
  /\ exc' = [exc EXCEPT ![s] = e]
  /\ pc' = [pc EXCEPT ![s] = "except"]

\* line 43 left out: the result of the run before stays
ResultAtStart_Kept(s) == analysis_result[s]

\* line 43: the value analysis_result is given when a run starts
ResultAtStart(s) == None

\* lines 42-46: the run starts
StartRun(s) ==
  /\ pc[s] = "idle"
  /\ \E video_url \in {"", "u1"}, is_api_key_valid \in BOOLEAN :
       ~ButtonDisabled(s, video_url, is_api_key_valid)
  /\ is_processing' = [is_processing EXCEPT ![s] = TRUE]
  /\ analysis_result' = [analysis_result EXCEPT ![s] = ResultAtStart(s)]
  /\ error_message' = [error_message EXCEPT ![s] = NoError]
  /\ progress' = [progress EXCEPT ![s] = <<0>>]
  /\ audio_filepath' = [audio_filepath EXCEPT ![s] = FALSE]
  /\ uploaded_file' = [uploaded_file EXCEPT ![s] = NoHandle]
  /\ exc' = [exc EXCEPT ![s] = NoExc]
  /\ polls' = [polls EXCEPT ![s] = 0]
  /\ generated' = [generated EXCEPT ![s] = NoHandle]
  /\ created' = [created EXCEPT ![s] = FALSE]
  /\ removed' = [removed EXCEPT ![s] = FALSE]
  /\ escaped' = [escaped EXCEPT ![s] = FALSE]
  /\ attempts' = [attempts EXCEPT ![s] = NoAttempts]
  /\ sleeps' = [sleeps EXCEPT ![s] = 0]
  /\ response' = [response EXCEPT ![s] = None]
  /\ prev' = [prev EXCEPT ![s] =
       IF analysis_result[s] # None THEN "result"
       ELSE IF error_message[s] # NoError THEN "error" ELSE "none"]
  /\ pc' = [pc EXCEPT ![s] = "connect"]
  /\ UNCHANGED <<file, ran, access>>

\* a progress call that reaches the bar twice
Emit_Twice(s, pct) == progress' = [progress EXCEPT ![s] = progress[s] \o <<pct, pct>>]

\* a call of progress_bar.progress
Emit(s, pct) == progress' = [progress EXCEPT ![s] = Append(progress[s], pct)]

\* lines 50-53: YouTube(video_url), the audio stream, the title
Connect(s) ==
  /\ pc[s] = "connect"
  /\ UNCHANGED <<attempts, sleeps, response, prev>>
  /\ \/ /\ progress' = [progress EXCEPT ![s] = progress[s] \o <<5, 10>>]
        /\ pc' = [pc EXCEPT ![s] = "download"]
        /\ UNCHANGED exc
     \/ /\ Emit(s, 5)
        /\ \E e \in {HTTPError(c, m) : c \in StatusCodes, m \in Msgs}
                    \cup {Exc(m, "download") : m \in Msgs} : Raise(s, e)
  /\ UNCHANGED <<is_processing, analysis_result, error_message, audio_filepath,
                 uploaded_file, file, polls, generated, created, removed,
                 escaped, ran, access>>

\* line 54, first half: download() opens 'temp_audio.mp4' for writing, which
\* creates it or empties the file another session left there; or the
\* platform refuses before anything is written
DownloadOpen(s) ==
  /\ pc[s] = "download"
  /\ attempts' = [attempts EXCEPT ![s].download = IF @ < MaxAttempts THEN @ + 1 ELSE @]
  /\ UNCHANGED <<sleeps, response, prev>>
  /\ \/ /\ file' = s
        /\ created' = [created EXCEPT ![s] = TRUE]
        /\ access' = [op |-> "write", actor |-> s,
                      owner |-> IF file = NoFile THEN s ELSE file]
        /\ pc' = [pc EXCEPT ![s] = "downloading"]
        /\ UNCHANGED exc
     \/ /\ \E e \in {HTTPError(c, m) : c \in StatusCodes, m \in Msgs}
                    \cup {Exc(m, "download") : m \in Msgs} : Raise(s, e)
        /\ UNCHANGED <<file, created, access>>
  /\ UNCHANGED <<is_processing, analysis_result, error_message, progress,
                 audio_filepath, uploaded_file, polls, generated, removed,
                 escaped, ran>>

\* line 54, second half: the stream is written and download() returns the
\* path, which the assignment stores; or the transfer breaks off and the
\* assignment never happens
DownloadWrite(s) ==
  /\ pc[s] = "downloading"
  /\ UNCHANGED <<attempts, sleeps, response, prev>>
  /\ \/ /\ audio_filepath' = [audio_filepath EXCEPT ![s] = TRUE]
        /\ access' = IF file = NoFile THEN access
                     ELSE [op |-> "write", actor |-> s, owner |-> file]
        /\ pc' = [pc EXCEPT ![s] = "upload"]
        /\ UNCHANGED exc
     \/ /\ \E e \in {HTTPError(c, m) : c \in StatusCodes, m \in Msgs}
                    \cup {Exc(m, "download") : m \in Msgs} : Raise(s, e)
        /\ UNCHANGED <<audio_filepath, access>>
  /\ UNCHANGED <<is_processing, analysis_result, error_message, progress,
                 uploaded_file, file, polls, generated, created, removed,
                 escaped, ran>>

\* lines 57-68: configure, upload_file(path=audio_filepath), progress 50
Upload(s) ==
  /\ pc[s] = "upload"
  /\ attempts' = [attempts EXCEPT ![s].upload = IF @ < MaxAttempts THEN @ + 1 ELSE @]
  /\ UNCHANGED <<sleeps, response, prev>>
  /\ \/ /\ file # NoFile
        /\ \E st \in UploadState :
             uploaded_file' = [uploaded_file EXCEPT ![s] = st]
        /\ access' = [op |-> "upload", actor |-> s, owner |-> file]
        /\ progress' = [progress EXCEPT ![s] = progress[s] \o <<25, 50>>]
        /\ pc' = [pc EXCEPT ![s] = "poll"]
        /\ UNCHANGED exc
     \/ /\ Emit(s, 25)
        /\ \E m \in Msgs : Raise(s, Exc(m, "upload"))
        /\ UNCHANGED <<uploaded_file, access>>
  /\ UNCHANGED <<is_processing, analysis_result, error_message, audio_filepath,
                 file, polls, generated, created, removed, escaped, ran>>

\* a loop that only a FAILED handle ends
StillProcessing_UntilFailed(st) == st # "FAILED"

\* line 69: the condition of the polling loop
StillProcessing(st) == st = "PROCESSING"

\* the loop without line 70: the handle is fetched again at once
Sleep_NoWait(s) ==
  /\ pc[s] = "poll"
  /\ StillProcessing(uploaded_file[s])
  /\ pc' = [pc EXCEPT ![s] = "get_file"]
  /\ UNCHANGED <<is_processing, analysis_result, error_message, progress,
                 audio_filepath, uploaded_file, exc, file, polls, generated,
                 created, removed, escaped, ran, access, attempts, sleeps,
                 response, prev>>

\* lines 69-70: the loop condition holds and the thread sleeps 5 seconds
Sleep(s) ==
  /\ pc[s] = "poll"
  /\ sleeps' = [sleeps EXCEPT ![s] = IF @ < MaxPolls THEN @ + 1 ELSE @]
  /\ UNCHANGED <<attempts, response, prev>>
  /\ StillProcessing(uploaded_file[s])
  /\ pc' = [pc EXCEPT ![s] = "get_file"]
  /\ UNCHANGED <<is_processing, analysis_result, error_message, progress,
                 audio_filepath, uploaded_file, exc, file, polls, generated,
                 created, removed, escaped, ran, access>>

\* line 71: the handle is fetched again and the loop condition is next
GetFile(s) ==
  /\ pc[s] = "get_file"
  /\ UNCHANGED <<attempts, sleeps, response, prev>>
  /\ polls' = [polls EXCEPT ![s] = IF @ < MaxPolls THEN @ + 1 ELSE @]
  /\ \/ /\ \E st \in NextUploadState :
             uploaded_file' = [uploaded_file EXCEPT ![s] = st]
        /\ pc' = [pc EXCEPT ![s] = "poll"]
        /\ UNCHANGED exc
     \/ /\ \E m \in Msgs : Raise(s, Exc(m, "other"))
        /\ UNCHANGED uploaded_file
  /\ UNCHANGED <<is_processing, analysis_result, error_message, progress,
                 audio_filepath, file, generated, created, removed, escaped,
                 ran, access>>

\* the test of line 73 left out: no handle is taken as failed
IsFailed_Never(st) == FALSE

\* line 73: the test after the loop
IsFailed(st) == st = "FAILED"

\* lines 73-77: the loop is left; a FAILED handle raises, any other goes on
AfterPoll(s) ==
  /\ pc[s] = "poll"
  /\ UNCHANGED <<attempts, sleeps, response, prev>>
  /\ ~StillProcessing(uploaded_file[s])
  /\ IF IsFailed(uploaded_file[s])
       THEN /\ Raise(s, Exc(ProcessingFailedText, "processing"))
            /\ UNCHANGED progress
       ELSE /\ Emit(s, 75)
            /\ pc' = [pc EXCEPT ![s] = "generate"]
            /\ UNCHANGED exc
  /\ UNCHANGED <<is_processing, analysis_result, error_message, audio_filepath,
                 uploaded_file, file, polls, generated, created, removed,
                 escaped, ran, access>>

\* the text with a surrounding code fence taken off before it is stored
StoredText_Unfenced(t) == IF t = "~~~t1~~~" THEN "t1" ELSE t

\* line 107: what is stored of response.text
StoredText(t) == t

\* lines 106-109: generate_content([prompt, uploaded_file], timeout 600)
Generate(s) ==
  /\ pc[s] = "generate"
  /\ attempts' = [attempts EXCEPT ![s].generate = IF @ < MaxAttempts THEN @ + 1 ELSE @]
  /\ UNCHANGED <<sleeps, prev>>
  /\ generated' = [generated EXCEPT ![s] = uploaded_file[s]]
  /\ \/ /\ \E t \in Texts :
             /\ response' = [response EXCEPT ![s] = t]
             /\ analysis_result' = [analysis_result EXCEPT ![s] = StoredText(t)]
        /\ Emit(s, 100)
        /\ pc' = [pc EXCEPT ![s] = "finally"]
        /\ UNCHANGED exc
     \/ /\ \E m \in Msgs, f \in {"timeout", "other"} : Raise(s, Exc(m, f))
        /\ UNCHANGED <<analysis_result, progress, response>>
  /\ UNCHANGED <<is_processing, error_message, audio_filepath, uploaded_file,
                 file, polls, created, removed, escaped, ran, access>>

\* the handler without its status test: every HTTPError gets the general text
HandleHTTPError_NoStatusTest(e) == [wrapper |-> "YouTube", detail |-> e.msg]

\* lines 113-116: the body of "except HTTPError as e"
HandleHTTPError(e) ==
  IF e.status_code = 429
    THEN [wrapper |-> "RateLimit", detail |-> ""]
    ELSE [wrapper |-> "YouTube", detail |-> e.msg]

\* line 118: the body of "except Exception as e"
HandleException(e) == [wrapper |-> "Unexpected", detail |-> e.msg]

\* lines 112-118: the except clauses
Except(s) ==
  /\ pc[s] = "except"
  /\ UNCHANGED <<attempts, sleeps, response, prev>>
  /\ error_message' = [error_message EXCEPT ![s] =
       IF exc[s].type = "HTTPError" THEN HandleHTTPError(exc[s])
                                    ELSE HandleException(exc[s])]
  /\ pc' = [pc EXCEPT ![s] = "finally"]
  /\ UNCHANGED <<is_processing, analysis_result, progress, audio_filepath,
                 uploaded_file, exc, file, polls, generated, created, removed,
                 escaped, ran, access>>

\* the finally clause without line 120: the flag keeps its value
ProcessingAtExit_Kept(s) == is_processing[s]

\* line 120: the value the finally clause gives is_processing
ProcessingAtExit(s) == FALSE

\* lines 120-121: finally: the flag, then the test that guards os.remove
Finally(s) ==
  /\ pc[s] = "finally"
  /\ UNCHANGED <<attempts, sleeps, response, prev>>
  /\ is_processing' = [is_processing EXCEPT ![s] = ProcessingAtExit(s)]
  /\ IF audio_filepath[s] /\ file # NoFile
       THEN /\ pc' = [pc EXCEPT ![s] = "remove"]
            /\ UNCHANGED ran
       ELSE /\ pc' = [pc EXCEPT ![s] = "idle"]
            /\ ran' = [ran EXCEPT ![s] = TRUE]
  /\ UNCHANGED <<analysis_result, error_message, progress, audio_filepath,
                 uploaded_file, exc, file, polls, generated, created, removed,
                 escaped, access>>

\* line 122: os.remove(audio_filepath); FileNotFoundError leaves the function
\* when the file went away after the test of line 121
Remove(s) ==
  /\ pc[s] = "remove"
  /\ UNCHANGED <<attempts, sleeps, response, prev>>
  /\ IF file # NoFile
       THEN /\ file' = NoFile
            /\ access' = [op |-> "delete", actor |-> s, owner |-> file]
            /\ removed' = [removed EXCEPT ![s] = TRUE]
            /\ UNCHANGED escaped
       ELSE /\ escaped' = [escaped EXCEPT ![s] = TRUE]
            /\ UNCHANGED <<file, access, removed>>
  /\ pc' = [pc EXCEPT ![s] = "idle"]
  /\ ran' = [ran EXCEPT ![s] = TRUE]
  /\ UNCHANGED <<is_processing, analysis_result, error_message, progress,
                 audio_filepath, uploaded_file, exc, polls, generated, created>>

\* everything a running script thread does on its own
RunStep(s) ==
  \/ Connect(s) \/ DownloadOpen(s) \/ DownloadWrite(s) \/ Upload(s)
  \/ Sleep(s) \/ GetFile(s) \/ AfterPoll(s) \/ Generate(s) \/ Except(s)
  \/ Finally(s) \/ Remove(s)

Next == \E s \in Sessions : StartRun(s) \/ RunStep(s)

Spec == Init /\ [][Next]_vars

\* a started script thread keeps running
FairSpec == Spec /\ \A s \in Sessions : WF_vars(RunStep(s))

\* --------------------------------------------------------------- claims

\* a run of session s has returned
Returned(s) == pc[s] = "idle" /\ ran[s]

RateLimitedMessage == [wrapper |-> "RateLimit", detail |-> ""]

\* the error kind of the specification that a stored message stands for
ErrorKind(em) ==
  CASE em.wrapper = "RateLimit" -> "RateLimited"
    [] em.wrapper = "YouTube" -> "DownloadFailed"
    [] em.wrapper = "Unexpected" /\ em.detail = ProcessingFailedText -> "ProcessingFailed"
    [] em.wrapper = "Unexpected" /\ em.detail # ProcessingFailedText -> "Unknown"
    [] OTHER -> "none"

\* the error kind the specification gives the fault a run raised
ExpectedKind(e) ==
  CASE e.fault = "download" -> "DownloadFailed"
    [] e.fault = "upload" -> "UploadFailed"
    [] e.fault = "processing" -> "ProcessingFailed"
    [] e.fault = "timeout" -> "AnalysisTimedOut"
    [] OTHER -> "Unknown"

\* C1: the polling loop always terminates: a run that has entered the loop
\* returns, whatever the store reports
C1_PollingTerminates ==
  \A s \in Sessions : (pc[s] \in {"poll", "get_file"}) ~> (pc[s] = "idle")

\* C2: generate_content is only ever given a handle whose last observed
\* state is ACTIVE
C2_GenerateOnlyActive ==
  \A s \in Sessions : generated[s] # NoHandle => generated[s] = "ACTIVE"

\* C3: once a run has returned, the temporary file it created is gone and
\* the run removed it, also when the download broke off while writing
C3_TempFileDeleted ==
  \A s \in Sessions :
    Returned(s) => /\ file # s
                   /\ created[s] => removed[s]

\* C4: a handle seen FAILED is never given to generate_content and no result
\* is stored for it; the run returns with the processing-failed error
C4_FailedHandle ==
  \A s \in Sessions :
    uploaded_file[s] = "FAILED" =>
      /\ generated[s] = NoHandle
      /\ analysis_result[s] = None
      /\ Returned(s) => /\ ErrorKind(error_message[s]) = "ProcessingFailed"
                        /\ error_message[s].detail = ProcessingFailedText

\* C4 witness: Processing, Processing, Failed, and the run has returned
C4_Witness ==
  \E s \in Sessions :
    /\ Returned(s) /\ uploaded_file[s] = "FAILED" /\ polls[s] = 2
    /\ ErrorKind(error_message[s]) = "ProcessingFailed"

\* C5: the error a run ends with names the stage that failed: download,
\* upload, processing, inference timeout each have their own kind, and only
\* other faults are Unknown
C5_ErrorKindNamesStage ==
  \A s \in Sessions :
    (Returned(s) /\ exc[s] # NoExc) =>
      ErrorKind(error_message[s]) =
        IF exc[s].type = "HTTPError" /\ exc[s].status_code = 429
          THEN "RateLimited" ELSE ExpectedKind(exc[s])

\* C6: a run that raised an HTTPError ends with the rate-limit message
\* exactly when the status was 429; otherwise with the YouTube error message
C6_RateLimited ==
  \A s \in Sessions :
    (Returned(s) /\ exc[s].type = "HTTPError") =>
      IF exc[s].status_code = 429
        THEN error_message[s] = RateLimitedMessage
        ELSE ErrorKind(error_message[s]) = "DownloadFailed"

\* C6 witness: a 429 has ended a run with the rate-limit message
C6_Witness ==
  \E s \in Sessions :
    /\ Returned(s) /\ exc[s].type = "HTTPError" /\ exc[s].status_code = 429
    /\ error_message[s] = RateLimitedMessage

\* C7: a run whose download raised a rate-limit error ends with the
\* rate-limit message, has created no temporary file and leaves none
C7_RateLimitedNoFile ==
  \A s \in Sessions :
    (Returned(s) /\ exc[s].type = "HTTPError" /\ exc[s].status_code = 429) =>
      /\ error_message[s] = RateLimitedMessage
      /\ ~created[s]
      /\ file # s

\* C8: is_processing is False whenever analyze_youtube_video is not running
C8_NotProcessingAtReturn ==
  \A s \in Sessions : pc[s] = "idle" => ~is_processing[s]

\* C8 witness: a run that raised a fault has returned with the flag False
C8_Witness ==
  \E s \in Sessions : Returned(s) /\ exc[s] # NoExc /\ ~is_processing[s]

\* C9: the temporary file of one run is never written, uploaded or deleted
\* by another run
C9_PrivateTempFile == access.actor = access.owner

\* C10: at most one run is in progress at any moment, and while a run is in
\* progress the analyze button is disabled
C10_OneRunAtATime ==
  /\ Cardinality({s \in Sessions : pc[s] # "idle"}) <= 1
  /\ (\E s \in Sessions : pc[s] # "idle") =>
       \A t \in Sessions : ButtonDisabled(t, "u1", TRUE)

\* the percentages of a run that succeeds, in the order of the code
AllProgress == <<0, 5, 10, 25, 50, 75, 100>>

IsPrefix(p, q) == Len(p) <= Len(q) /\ \A i \in 1..Len(p) : p[i] = q[i]

\* C11: in one run download, upload_file and generate_content are each
\* called at most once, and after a stage has raised no later stage is called
C11_NoRetry ==
  \A s \in Sessions :
    /\ attempts[s].download <= 1
    /\ attempts[s].upload <= 1
    /\ attempts[s].generate <= 1
    /\ exc[s].fault = "download" =>
         attempts[s].upload = 0 /\ attempts[s].generate = 0
    /\ exc[s].fault \in {"upload", "processing"} => attempts[s].generate = 0

\* C11 witness: the upload raised once and the run returned without
\* another upload and without the inference call
C11_Witness ==
  \E s \in Sessions :
    /\ Returned(s) /\ exc[s].fault = "upload"
    /\ attempts[s] = [download |-> 1, upload |-> 1, generate |-> 0]

\* C12: every step that takes a run to its next stage gives the progress bar
\* the percentage of that stage, the step to the failed state included
C12_ProgressAfterEveryTransition ==
  [][\A s \in Sessions :
       /\ (pc[s] = "connect" /\ pc'[s] = "download") =>
            progress'[s] = progress[s] \o <<5, 10>>
       /\ (pc[s] = "upload" /\ pc'[s] = "poll") =>
            progress'[s] = progress[s] \o <<25, 50>>
       /\ (pc[s] = "poll" /\ pc'[s] = "generate") =>
            progress'[s] = Append(progress[s], 75)
       /\ (pc[s] = "generate" /\ pc'[s] = "finally") =>
            progress'[s] = Append(progress[s], 100)
       /\ (pc[s] = "except" /\ pc'[s] = "finally") =>
            Len(progress'[s]) > Len(progress[s])]_vars

\* C13: a handle that upload_file returned ACTIVE is neither waited for nor
\* fetched again, and no handle seen ACTIVE or FAILED is fetched again
C13_NoQueryAfterTerminal ==
  \A s \in Sessions :
    /\ uploaded_file[s] \in {"ACTIVE", "FAILED"} => pc[s] # "get_file"
    /\ (uploaded_file[s] = "ACTIVE" /\ polls[s] = 0) => sleeps[s] = 0

\* C13 witness: a handle returned ACTIVE went to generate_content without a
\* wait or a status query
C13_Witness ==
  \E s \in Sessions :
    generated[s] = "ACTIVE" /\ polls[s] = 0 /\ sleeps[s] = 0

\* C14: a run that succeeded has stored exactly the text the service
\* returned
C14_ResultVerbatim ==
  \A s \in Sessions :
    response[s] # None => analysis_result[s] = response[s]

\* C14 witness: a fenced text has been stored and the run has returned
C14_Witness ==
  \E s \in Sessions :
    Returned(s) /\ response[s] = "~~~t1~~~" /\ analysis_result[s] = "~~~t1~~~"

\* C15: waits and status queries alternate, a wait first: between queries
\* there is one wait, a returned run has waited as often as it has queried,
\* and a query follows only an observation of PROCESSING
C15_WaitBeforeEveryQuery ==
  \A s \in Sessions :
    /\ sleeps[s] = IF pc[s] = "get_file" /\ polls[s] < MaxPolls
                     THEN polls[s] + 1 ELSE polls[s]
    /\ pc[s] = "get_file" => uploaded_file[s] = "PROCESSING"

\* C15 witness: a run with two waits and two queries has returned
C15_Witness ==
  \E s \in Sessions : Returned(s) /\ polls[s] = 2 /\ sleeps[s] = 2

\* C16: a run that has returned has set exactly one of analysis_result and
\* error_message to a non-empty value
C16_ExactlyOneOutcome ==
  \A s \in Sessions :
    Returned(s) =>
      (analysis_result[s] \notin {None, ""}) # (error_message[s] # NoError)

\* C17: a run starts with analysis_result and error_message cleared, so a
\* run that failed leaves no result and a run that succeeded no error message
C17_OnlyLatestRun ==
  \A s \in Sessions :
    /\ pc[s] = "connect" =>
         analysis_result[s] = None /\ error_message[s] = NoError
    /\ (Returned(s) /\ exc[s] # NoExc) => analysis_result[s] = None
    /\ (Returned(s) /\ exc[s] = NoExc) => error_message[s] = NoError

\* C17 witness: a run that failed after a run that had stored a result has
\* returned, and no result is stored
C17_Witness ==
  \E s \in Sessions :
    /\ Returned(s) /\ prev[s] = "result" /\ exc[s] # NoExc
    /\ analysis_result[s] = None /\ error_message[s] # NoError

\* C18: the percentages of a run are a prefix of 0, 5, 10, 25, 50, 75, 100,
\* all of it when the run succeeded, and 100 is there only when the result
\* has been stored and nothing was raised
C18_ProgressOrder ==
  \A s \in Sessions :
    /\ IsPrefix(progress[s], AllProgress)
    /\ (Returned(s) /\ exc[s] = NoExc) => progress[s] = AllProgress
    /\ (\E i \in 1..Len(progress[s]) : progress[s][i] = 100) =>
         analysis_result[s] # None /\ exc[s] = NoExc

\* C18 witness: a run has returned after the whole sequence, result stored
C18_Witness ==
  \E s \in Sessions :
    Returned(s) /\ progress[s] = AllProgress /\ analysis_result[s] = "t1"
====
